---- MODULE Spec2Model ----
(***************************************************************************)
(* Model of the upload -> validate -> normalize -> transcribe -> respond   *)
(* -> cleanup pipeline of the three transcription services                 *)
(* (backend/whisper, backend/faster-whisper, backend/groq-api).            *)
(*                                                                         *)
(* A server process runs one variant.  Requests are coroutines on one      *)
(* event-loop thread: `loop` names the request whose code currently runs   *)
(* on that thread (0 when the thread is free).  A coroutine gives the      *)
(* thread up only at a real suspension point (run_in_executor); blocking   *)
(* calls keep it.  Text is modelled as sequences of one-character strings, *)
(* messages as sequences of fragments.                                     *)
(***************************************************************************)
EXTENDS Integers, Sequences, FiniteSets, TLC

VARIABLES
    variant,      \* which service this process runs
    loop,         \* request running on the event-loop thread, 0 = free
    pc,           \* pc[r]: position of request r's handler
    upload,       \* upload[r]: the UploadFile of the request
    dirs,         \* temporary directories that exist on disk
    files,        \* temporary files that exist on disk: <<dir, name>>
    owner,        \* owner[d]: request whose mkdtemp created directory d (0 = never created)
    temp_dir,     \* temp_dir[r]: local of preprocess_audio, 0 = unbound
    outBound,     \* 'temp_output_path' in locals() of preprocess_audio
    procPath,     \* the value the orchestrator holds as path of the normalized file
    conv,         \* conv[r]: state of the external converter process
    backend,      \* backend[r]: state of the backend call
    exc,          \* exc[r]: exception in flight in request r
    resp,         \* resp[r]: response payload built by the orchestrator
    status,       \* status[r]: HTTP status sent, 0 = none yet
    detail,       \* detail[r]: HTTP error detail
    spawns,       \* spawns[r]: converter processes started by r
    calls,        \* calls[r]: backend calls made by r
    log,          \* log[r]: stage events of r, in order
    cleanup_error, \* cleanup_error[r]: what the cleanup phase of r wrote to the error log
    probe,        \* a filename handed to the format validator, and its answer
    timing,       \* stage timings handed to the metrics aggregation, and its result
    service,      \* construction of transcription_service: "unconstructed", "ready", "failed"
    model,        \* the shared model/client handle: 0 = none, k = the one the k-th load made
    loads,        \* how many times the model/client was loaded
    model_load_time,     \* self.model_load_time
    metrics_model_load,  \* metrics_model_load[r]: metrics["model_load"] of r, <<>> = no metrics yet
    server_instance,     \* the module's server_instance
    should_exit,         \* the server's exit flag
    stop_server,         \* the thread started by /shutdown: "none", "started", "finished"
    shutdown_reply       \* message returned by /shutdown, "" = none yet

vars == <<variant, loop, pc, upload, dirs, files, owner, temp_dir, outBound,
          procPath, conv, backend, exc, resp, status, detail, spawns, calls, log,
          cleanup_error, probe, timing, service, model, loads, model_load_time,
          metrics_model_load, server_instance, should_exit, stop_server,
          shutdown_reply>>

ServiceVars == <<service, model, loads, model_load_time>>
ServerVars == <<server_instance, should_exit, stop_server, shutdown_reply>>

(***************************************************************************)
(* Bounds                                                                  *)
(***************************************************************************)
NumRequests == 2

\* Requests are numbered in their order of arrival.
Requests == 1..NumRequests
\* Directory names mkdtemp can hand out: one per request suffices, since a
\* request creates at most one directory.
DirNames == 1..NumRequests

\* The three HTTP services, and groq-api's TranscriptionService.transcribe
\* called on its own (main.py of groq-api never gets as far as calling it).
Variants == {"whisper", "faster", "groq", "groq_service"}

(***************************************************************************)
(* Text helpers                                                            *)
(***************************************************************************)
UpperToLower ==
    [A |-> "a", B |-> "b", C |-> "c", D |-> "d", E |-> "e", F |-> "f",
     G |-> "g", H |-> "h", I |-> "i", J |-> "j", K |-> "k", L |-> "l",
     M |-> "m", N |-> "n", O |-> "o", P |-> "p", Q |-> "q", R |-> "r",
     S |-> "s", T |-> "t", U |-> "u", V |-> "v", W |-> "w", X |-> "x",
     Y |-> "y", Z |-> "z"]

\* str.lower()
Lower(s) ==
    [i \in 1..Len(s) |->
        IF s[i] \in DOMAIN UpperToLower THEN UpperToLower[s[i]] ELSE s[i]]

\* str.rfind(c), 1-based; 0 when c does not occur
RFind(s, c) ==
    LET hits == {i \in 1..Len(s) : s[i] = c}
    IN  IF hits = {} THEN 0 ELSE CHOOSE i \in hits : \A j \in hits : j <= i

\* os.path.splitext (posixpath/genericpath._splitext): the extension starts
\* at the last dot, provided that dot follows the last separator and some
\* character between the separator and the dot is not a dot.
splitext(p) ==
    LET sepIndex == RFind(p, "/")
        dotIndex == RFind(p, ".")
    IN  IF /\ dotIndex > sepIndex
           /\ \E k \in (sepIndex + 1)..(dotIndex - 1) : p[k] # "."
        THEN <<SubSeq(p, 1, dotIndex - 1), SubSeq(p, dotIndex, Len(p))>>
        ELSE <<p, <<>>>>

valid_extensions ==
    { <<".", "m", "p", "3">>, <<".", "w", "a", "v">>, <<".", "m", "4", "a">>,
      <<".", "f", "l", "a", "c">>, <<".", "o", "g", "g">>,
      <<".", "a", "a", "c">>, <<".", "w", "e", "b", "m">> }

\* The validator without the lower-casing of the filename.
W_is_valid_audio_format_CaseSensitive(filename) ==
    splitext(filename)[2] \in valid_extensions

\* whisper/audio_utils.py
W_is_valid_audio_format(filename) ==
    splitext(Lower(filename))[2] \in valid_extensions

\* groq-api/audio_utils.py
G_is_valid_audio_format(filename) ==
    splitext(Lower(filename))[2] \in valid_extensions

\* faster-whisper/audio_utils.py is not part of the sources: Format Validator
\* of the specification (case-insensitive extension, fixed accepted set).
F_is_valid_audio_format(filename) ==
    splitext(Lower(filename))[2] \in valid_extensions


(***************************************************************************)
(* Uploads, messages, exceptions                                           *)
(***************************************************************************)
FnClipMp3  == <<"c", "l", "i", "p", ".", "m", "p", "3">>
FnUpperWav == <<"A", ".", "W", "A", "V">>
FnNotesTxt == <<"n", "o", "t", "e", "s", ".", "t", "x", "t">>
FnNoExt    == <<"r", "e", "c">>
FnEmpty    == <<>>

RequestFilenames == {FnClipMp3, FnNotesTxt, FnEmpty}

\* An UploadFile: its filename and whether its size exceeds MAX_FILE_SIZE_MB.
Uploads == [filename : RequestFilenames, big : BOOLEAN]
NoUpload == [filename |-> <<>>, big |-> FALSE]

MsgSupported   == "Supported formats:"
MsgBackendFail == "CUDA out of memory"
MsgNoSuchFile  == "No such file or directory"
MsgInvalidData == "Invalid data found when processing input"
MsgConvFailed  == "Conversion failed!"
MsgFileTooLarge == "File too large."

NoExc == [type |-> "none", msg |-> <<>>]
Raise(t, m) == [type |-> t, msg |-> m]

\* Results of the external converter: exit code, whether the output file was
\* written, and its stderr text.
ConvOutcomes ==
    { [rc |-> 0, out |-> TRUE,  err |-> ""],
      [rc |-> 0, out |-> FALSE, err |-> ""],
      [rc |-> 1, out |-> FALSE, err |-> MsgInvalidData],
      [rc |-> 1, out |-> TRUE,  err |-> MsgConvFailed] }

\* out: the process wrote the output file; big: that file is larger than
\* MAX_FILE_SIZE_MB.
NoConv == [state |-> "none", rc |-> 0, err |-> "", out |-> FALSE, big |-> FALSE]
NoBackend == [state |-> "none", arg |-> <<>>, msg |-> <<>>, text |-> ""]
NoResp == [built |-> FALSE, text |-> "", language |-> "", fields |-> {}]

\* Keys of the response dict each orchestrator builds.
W_ResponseFields ==
    {"text", "language", "segments", "total_ms", "preprocessing_ms",
     "model_inference_ms", "overhead_ms"}
F_ResponseFields ==
    {"text", "language", "segments", "total_ms", "preprocessing_ms",
     "model_inference_ms", "overhead_ms", "metrics"}
\* _format_response, plus the "performance" entry transcribe adds.
G_ResponseFields == {"text", "processing_time", "model", "performance"}

\* Values a path variable can hold.
Unbound == <<>>
PathOf(d, name) == <<d, name>>
InPath(r)  == PathOf(temp_dir[r], "in")
OutPath(r) == PathOf(temp_dir[r], "out")

Ev(stage, what) == <<stage, what>>
Logged(r, evs) == [log EXCEPT ![r] = @ \o evs]

(***************************************************************************)
(* File system                                                             *)
(***************************************************************************)
\* not os.listdir(d)
DirEmpty(d, F) == ~ \E f \in F : f[1] = d

\* One scratch directory shared by all calls.
SharedDir(D) == 1

\* tempfile.mkdtemp: a directory name that is not in use.  Names are opaque,
\* so the least free one stands for any of them.
FreshDir(D) == CHOOSE d \in DirNames \ D : \A e \in DirNames \ D : d <= e

\* The next request to arrive is the lowest-numbered one not yet received.
NextToArrive(r) == \A q \in Requests : q < r => pc[q] # "idle"

\* The clean-up idiom with the unlink left out.
UnlinkSkipped(path, D, F) == <<D, F>>

\* The parent directory removed with everything in it.
RemoveTree(path, D, F) == <<D \ {path[1]}, {f \in F : f[1] # path[1]}>>

\* os.unlink(path) followed by "rmdir(parent) if it exists and is empty":
\* the clean-up idiom repeated in every orchestrator.
UnlinkThenRmdirIfEmpty(path, D, F) ==
    LET F2 == F \ {path}
        d  == path[1]
    IN  <<IF d \in D /\ DirEmpty(d, F2) THEN D \ {d} ELSE D, F2>>

\* Ways the cleanup phase can go: both calls succeed, os.unlink raises, or
\* os.rmdir raises after the file is gone.
CleanupOutcomes == {"ok", "unlink_fails", "rmdir_fails"}
MsgNotPermitted == "Operation not permitted"
NoCleanupError == ""

\* A cleanup phase whose error leaves the finally block.
CleanupErrorRaised(inflight, err) == err

\* The except clause of the cleanup phase: the error is logged, and what was
\* in flight before (nothing, or the primary exception) stays in flight.
CleanupErrorLogged(inflight, err) == inflight

\* The cleanup phase of the orchestrators on an existing file `path`, with
\* outcome o: the new directories, files, logged error and exception in flight.
CleanupPhase(o, path, D, F, inflight) ==
    LET err == Raise("PermissionError", <<MsgNotPermitted>>)
    IN  CASE o = "ok" ->
               LET res == UnlinkThenRmdirIfEmpty(path, D, F)
               IN  [dirs |-> res[1], files |-> res[2],
                    logged |-> NoCleanupError, exc |-> inflight]
          [] o = "unlink_fails" ->
               [dirs |-> D, files |-> F,
                logged |-> MsgNotPermitted, exc |-> CleanupErrorLogged(inflight, err)]
          [] o = "rmdir_fails" ->
               [dirs |-> D, files |-> F \ {path},
                logged |-> MsgNotPermitted, exc |-> CleanupErrorLogged(inflight, err)]

\* os.rmdir is only reached when the directory is empty after the unlink.
CleanupOutcomesFor(path, F) ==
    IF DirEmpty(path[1], F \ {path}) THEN CleanupOutcomes
    ELSE CleanupOutcomes \ {"rmdir_fails"}

\* The metrics dict as transcribe_file_upload creates it: every stage 0.
ZeroMetrics ==
    [model_load |-> 0, validation |-> 0, audio_preprocessing |-> 0,
     audio_loading |-> 0, feature_extraction |-> 0, model_inference |-> 0,
     decoding |-> 0, postprocessing |-> 0, cleanup |-> 0, overhead |-> 0,
     total |-> 0]
NoResponseMs ==
    [built |-> FALSE, total_ms |-> 0, preprocessing_ms |-> 0,
     model_inference_ms |-> 0, overhead_ms |-> 0]
\* unaccounted: time inside the request that no stage measures;
\* cleanup_elapsed: how long the finally block of the request takes;
\* handed_back: the finally block has run and the caller holds the metrics.
NoTiming ==
    [metrics |-> ZeroMetrics, unaccounted |-> 0, cleanup_elapsed |-> 0,
     response |-> NoResponseMs, handed_back |-> FALSE]

NoProbe == [filename |-> <<>>, result |-> "none"]

\* The state of a freshly started server process, before any request.
Idle ==
    /\ loop = 0
    /\ pc = [r \in Requests |-> "idle"]
    /\ upload = [r \in Requests |-> NoUpload]
    /\ dirs = {}
    /\ files = {}
    /\ owner = [d \in DirNames |-> 0]
    /\ temp_dir = [r \in Requests |-> 0]
    /\ outBound = [r \in Requests |-> FALSE]
    /\ procPath = [r \in Requests |-> Unbound]
    /\ conv = [r \in Requests |-> NoConv]
    /\ backend = [r \in Requests |-> NoBackend]
    /\ exc = [r \in Requests |-> NoExc]
    /\ resp = [r \in Requests |-> NoResp]
    /\ status = [r \in Requests |-> 0]
    /\ detail = [r \in Requests |-> <<>>]
    /\ spawns = [r \in Requests |-> 0]
    /\ calls = [r \in Requests |-> 0]
    /\ log = [r \in Requests |-> <<>>]
    /\ cleanup_error = [r \in Requests |-> NoCleanupError]
    /\ metrics_model_load = [r \in Requests |-> <<>>]

\* Longest duration, in ticks, of the long stages and of the model load.
MaxDuration == 2
Durations == 0..MaxDuration

\* server_instance = None (main.py), and no /shutdown request yet.
None == "None"
MsgShuttingDown == "Server shutting down"
ServerIdle ==
    /\ server_instance = None
    /\ should_exit = FALSE
    /\ stop_server = "none"
    /\ shutdown_reply = ""

\* Before main.py has built transcription_service.
Unconstructed ==
    /\ service = "unconstructed"
    /\ model = 0
    /\ loads = 0
    /\ model_load_time = 0

\* transcription_service has been built: the model (or the Groq client) was
\* loaded by __init__.  The handlers copy model_load_time and never compute
\* with it; SpecStart draws it from all of Durations.
Constructed ==
    /\ service = "ready"
    /\ model = 1
    /\ loads = 1
    /\ model_load_time = IF variant \in {"whisper", "faster"} THEN MaxDuration ELSE 0

\* The model loaded once more, by a handler.
ModelReloaded ==
    /\ service' = service
    /\ loads' = loads + 1
    /\ model' = loads + 1
    /\ model_load_time' = (model_load_time + 1) % (MaxDuration + 1)

\* The handlers of a request only read self.model and self.model_load_time.
ModelReadOnly == UNCHANGED ServiceVars

Init ==
    /\ variant \in Variants
    /\ probe = NoProbe
    /\ timing = NoTiming
    /\ Idle
    /\ Constructed
    /\ ServerIdle

(***************************************************************************)
(* whisper: main.py, transcription.py, audio_utils.py                      *)
(***************************************************************************)
\* The request accepted without looking at the size of the upload.
W_Receive_NoSizeCheck(r) ==
    /\ variant = "whisper"
    /\ service = "ready"
    /\ pc[r] = "idle"
    /\ NextToArrive(r)
    /\ loop = 0
    /\ \E u \in Uploads : upload' = [upload EXCEPT ![r] = u]
    /\ pc' = [pc EXCEPT ![r] = "validate"]
    /\ loop' = r
    /\ ModelReadOnly
    /\ UNCHANGED <<ServerVars, metrics_model_load, probe, timing, cleanup_error, variant, dirs, files, owner, temp_dir,
                   outBound, procPath, conv, backend, exc, resp, status, detail,
                   spawns, calls, log>>

\* main.py transcribe_audio: the request is accepted by the event loop, the
\* upload is read and its size checked.
W_Receive(r) ==
    /\ variant = "whisper"
    /\ service = "ready"
    /\ pc[r] = "idle"
    /\ NextToArrive(r)
    /\ loop = 0
    /\ \E u \in Uploads :
        /\ upload' = [upload EXCEPT ![r] = u]
        /\ IF u.big
           THEN /\ status' = [status EXCEPT ![r] = 413]
                /\ detail' = [detail EXCEPT ![r] = <<"File too large:", "Maximum size:">>]
                /\ pc' = [pc EXCEPT ![r] = "done"]
                /\ loop' = 0
           ELSE /\ pc' = [pc EXCEPT ![r] = "validate"]
                /\ loop' = r
                /\ UNCHANGED <<status, detail>>
    /\ ModelReadOnly
    /\ UNCHANGED <<ServerVars, metrics_model_load, probe, timing, cleanup_error, variant, dirs, files, owner, temp_dir, outBound, procPath,
                   conv, backend, exc, resp, spawns, calls, log>>

\* Validation that records its verdict but lets every upload through.
W_Validate_NoReject(r) ==
    /\ variant = "whisper"
    /\ pc[r] = "validate"
    /\ loop = r
    /\ log' = Logged(r, <<Ev("validate", "start"), Ev("validate", "end")>>)
    /\ pc' = [pc EXCEPT ![r] = "mkdtemp"]
    /\ ModelReadOnly
    /\ metrics_model_load' = [metrics_model_load EXCEPT ![r] = <<model_load_time>>]
    /\ UNCHANGED <<ServerVars, probe, timing, cleanup_error, variant, loop, upload, dirs, files, owner, temp_dir, outBound,
                   procPath, conv, backend, exc, resp, status, detail, spawns, calls>>

\* transcription.py transcribe_file_upload: format validation.
W_Validate(r) ==
    /\ variant = "whisper"
    /\ pc[r] = "validate"
    /\ loop = r
    /\ log' = Logged(r, <<Ev("validate", "start"), Ev("validate", "end")>>)
    /\ IF ~ W_is_valid_audio_format(upload[r].filename)
       THEN /\ exc' = [exc EXCEPT ![r] = Raise("ValueError",
                         <<"Invalid audio format.", MsgSupported,
                           "mp3", "wav", "flac", "m4a", "ogg", "aac", "webm">>)]
            /\ pc' = [pc EXCEPT ![r] = "http"]
       ELSE /\ pc' = [pc EXCEPT ![r] = "mkdtemp"]
            /\ UNCHANGED exc
    /\ ModelReadOnly
    /\ metrics_model_load' = [metrics_model_load EXCEPT ![r] = <<model_load_time>>]
    /\ UNCHANGED <<ServerVars, probe, timing, cleanup_error, variant, loop, upload, dirs, files, owner, temp_dir, outBound,
                   procPath, conv, backend, resp, status, detail, spawns, calls>>

\* audio_utils.py preprocess_audio: tempfile.mkdtemp creates a directory
\* whose name is not in use.
W_Mkdtemp(r) ==
    /\ variant = "whisper"
    /\ pc[r] = "mkdtemp"
    /\ loop = r
    /\ DirNames \ dirs # {}
    /\ LET d == FreshDir(dirs)
       IN  /\ dirs' = dirs \cup {d}
           /\ owner' = [owner EXCEPT ![d] = r]
           /\ temp_dir' = [temp_dir EXCEPT ![r] = d]
    /\ pc' = [pc EXCEPT ![r] = "write"]
    /\ log' = Logged(r, <<Ev("normalize", "start")>>)
    /\ ModelReadOnly
    /\ UNCHANGED <<ServerVars, metrics_model_load, probe, timing, cleanup_error, variant, loop, upload, files, outBound, procPath, conv,
                   backend, exc, resp, status, detail, spawns, calls>>

\* audio_utils.py preprocess_audio: the upload is written to the input file;
\* open() or write() may fail, leaving no file or a partial one.
W_WriteInput(r) ==
    /\ variant = "whisper"
    /\ pc[r] = "write"
    /\ loop = r
    /\ \E o \in {"ok", "fail_partial", "fail_nofile"} :
        /\ files' = IF o = "fail_nofile" THEN files ELSE files \cup {InPath(r)}
        /\ IF o = "ok"
           THEN /\ outBound' = [outBound EXCEPT ![r] = TRUE]
                /\ pc' = [pc EXCEPT ![r] = "spawn"]
                /\ UNCHANGED exc
           ELSE /\ exc' = [exc EXCEPT ![r] = Raise("OSError", <<"No space left on device">>)]
                /\ pc' = [pc EXCEPT ![r] = "norm_except"]
                /\ UNCHANGED outBound
    /\ ModelReadOnly
    /\ UNCHANGED <<ServerVars, metrics_model_load, probe, timing, cleanup_error, variant, loop, upload, dirs, owner, temp_dir, procPath, conv,
                   backend, resp, status, detail, spawns, calls, log>>

\* audio_utils.py preprocess_audio: subprocess.Popen starts ffmpeg, or fails
\* to (executable missing).
W_Spawn(r) ==
    /\ variant = "whisper"
    /\ pc[r] = "spawn"
    /\ loop = r
    /\ \/ /\ conv' = [conv EXCEPT ![r] = [NoConv EXCEPT !.state = "running"]]
          /\ spawns' = [spawns EXCEPT ![r] = @ + 1]
          /\ pc' = [pc EXCEPT ![r] = "converting"]
          /\ UNCHANGED exc
       \/ /\ exc' = [exc EXCEPT ![r] = Raise("FileNotFoundError", <<"ffmpeg">>)]
          /\ pc' = [pc EXCEPT ![r] = "norm_except"]
          /\ UNCHANGED <<conv, spawns>>
    /\ ModelReadOnly
    /\ UNCHANGED <<ServerVars, metrics_model_load, probe, timing, cleanup_error, variant, loop, upload, dirs, files, owner, temp_dir, outBound,
                   procPath, backend, resp, status, detail, calls, log>>

\* audio_utils.py preprocess_audio: process.communicate() returns when the
\* converter has exited; the call is made on the event-loop thread.
W_Communicate(r) ==
    /\ variant = "whisper"
    /\ pc[r] = "converting"
    /\ loop = r
    /\ \E o \in ConvOutcomes :
        /\ conv' = [conv EXCEPT ![r] = [state |-> "exited", rc |-> o.rc, err |-> o.err,
                                        out |-> o.out, big |-> FALSE]]
        /\ files' = IF o.out THEN files \cup {OutPath(r)} ELSE files
    /\ pc' = [pc EXCEPT ![r] = "check_exit"]
    /\ ModelReadOnly
    /\ UNCHANGED <<ServerVars, metrics_model_load, probe, timing, cleanup_error, variant, loop, upload, dirs, owner, temp_dir, outBound, procPath,
                   backend, exc, resp, status, detail, spawns, calls, log>>

\* A normalizer that starts the converter again after a non-zero exit.
W_CheckExit_Retry(r) ==
    /\ variant = "whisper"
    /\ pc[r] = "check_exit"
    /\ loop = r
    /\ IF conv[r].rc # 0
       THEN /\ pc' = [pc EXCEPT ![r] = "spawn"]
            /\ UNCHANGED <<files, procPath, log, exc>>
       ELSE /\ files' = files \ {InPath(r)}
            /\ procPath' = [procPath EXCEPT ![r] = OutPath(r)]
            /\ pc' = [pc EXCEPT ![r] = "dispatch"]
            /\ log' = Logged(r, <<Ev("normalize", "end")>>)
            /\ UNCHANGED exc
    /\ ModelReadOnly
    /\ UNCHANGED <<ServerVars, metrics_model_load, probe, timing, cleanup_error, variant, loop, upload, dirs, owner,
                   temp_dir, outBound, conv, backend, resp, status, detail, spawns, calls>>

\* audio_utils.py preprocess_audio: only the return code is consulted; on 0
\* the input file is unlinked and the output path returned.
W_CheckExit(r) ==
    /\ variant = "whisper"
    /\ pc[r] = "check_exit"
    /\ loop = r
    /\ IF conv[r].rc # 0
       THEN /\ exc' = [exc EXCEPT ![r] = Raise("RuntimeError",
                         <<"Audio preprocessing failed:", conv[r].err>>)]
            /\ pc' = [pc EXCEPT ![r] = "norm_except"]
            /\ UNCHANGED <<files, procPath, log>>
       ELSE /\ files' = files \ {InPath(r)}
            /\ procPath' = [procPath EXCEPT ![r] = OutPath(r)]
            /\ pc' = [pc EXCEPT ![r] = "dispatch"]
            /\ log' = Logged(r, <<Ev("normalize", "end")>>)
            /\ UNCHANGED exc
    /\ ModelReadOnly
    /\ UNCHANGED <<ServerVars, metrics_model_load, probe, timing, cleanup_error, variant, loop, upload, dirs, owner, temp_dir, outBound, conv,
                   backend, resp, status, detail, spawns, calls>>

\* audio_utils.py preprocess_audio, except branch: the input file, the
\* output file (when its path is bound) and the directory are removed, then
\* the error is re-raised as RuntimeError.  The orchestrator's own except
\* clause logs and re-raises it unchanged.
W_NormExcept(r) ==
    /\ variant = "whisper"
    /\ pc[r] = "norm_except"
    /\ loop = r
    /\ LET d  == temp_dir[r]
           F2 == (files \ {InPath(r)}) \ (IF outBound[r] THEN {OutPath(r)} ELSE {})
       IN  /\ files' = F2
           /\ dirs' = IF d \in dirs /\ DirEmpty(d, F2) THEN dirs \ {d} ELSE dirs
    /\ exc' = [exc EXCEPT ![r] = Raise("RuntimeError",
                 <<"Audio preprocessing failed:">> \o exc[r].msg)]
    /\ pc' = [pc EXCEPT ![r] = "finally"]
    /\ log' = Logged(r, <<Ev("normalize", "end")>>)
    /\ ModelReadOnly
    /\ UNCHANGED <<ServerVars, metrics_model_load, probe, timing, cleanup_error, variant, loop, upload, owner, temp_dir, outBound, procPath, conv,
                   backend, resp, status, detail, spawns, calls>>

\* The backend called directly from the coroutine, on the loop thread.
W_Dispatch_OnLoop(r) ==
    /\ variant = "whisper"
    /\ pc[r] = "dispatch"
    /\ loop = r
    /\ backend' = [backend EXCEPT ![r] =
                      [state |-> "running", arg |-> procPath[r], msg |-> <<>>, text |-> ""]]
    /\ calls' = [calls EXCEPT ![r] = @ + 1]
    /\ pc' = [pc EXCEPT ![r] = "backend_running"]
    /\ log' = Logged(r, <<Ev("transcribe", "start")>>)
    /\ ModelReadOnly
    /\ UNCHANGED <<ServerVars, metrics_model_load, probe, timing, cleanup_error, variant, loop, upload, dirs, files, owner, temp_dir, outBound,
                   procPath, conv, exc, resp, status, detail, spawns>>

\* transcription.py transcribe_file_upload: the backend call is handed to
\* the thread pool and awaited; the coroutine leaves the loop thread.
W_Dispatch(r) ==
    /\ variant = "whisper"
    /\ pc[r] = "dispatch"
    /\ loop = r
    /\ backend' = [backend EXCEPT ![r] =
                      [state |-> "running", arg |-> procPath[r], msg |-> <<>>, text |-> ""]]
    /\ calls' = [calls EXCEPT ![r] = @ + 1]
    /\ loop' = 0
    /\ pc' = [pc EXCEPT ![r] = "backend_running"]
    /\ log' = Logged(r, <<Ev("transcribe", "start")>>)
    /\ ModelReadOnly
    /\ UNCHANGED <<ServerVars, metrics_model_load, probe, timing, cleanup_error, variant, upload, dirs, files, owner, temp_dir, outBound, procPath,
                   conv, exc, resp, status, detail, spawns>>

\* transcription.py _transcribe_audio_file, on a pool thread: reads the wav
\* file, runs the model; any failure is re-raised as RuntimeError.
W_TranscribeAudioFile(r) ==
    /\ variant = "whisper"
    /\ pc[r] = "backend_running"
    /\ \/ /\ backend[r].arg \in files
          /\ backend' = [backend EXCEPT ![r].state = "returned", ![r].text = "hello"]
       \/ /\ backend[r].arg \in files
          /\ backend' = [backend EXCEPT ![r].state = "raised",
                            ![r].msg = <<"Failed to transcribe audio:", MsgBackendFail>>]
       \/ /\ backend[r].arg \notin files
          /\ backend' = [backend EXCEPT ![r].state = "raised",
                            ![r].msg = <<"Failed to transcribe audio:", MsgNoSuchFile>>]
    /\ pc' = [pc EXCEPT ![r] = "backend_done"]
    /\ ModelReadOnly
    /\ UNCHANGED <<ServerVars, metrics_model_load, probe, timing, cleanup_error, variant, loop, upload, dirs, files, owner, temp_dir, outBound,
                   procPath, conv, exc, resp, status, detail, spawns, calls, log>>

\* The temporary file removed as soon as the backend is back, before the
\* response is built.
W_Respond_CleanupFirst(r) ==
    /\ variant = "whisper"
    /\ pc[r] = "backend_done"
    /\ loop = 0
    /\ loop' = r
    /\ LET res == UnlinkThenRmdirIfEmpty(procPath[r], dirs, files)
       IN  dirs' = res[1] /\ files' = res[2]
    /\ IF backend[r].state = "raised"
       THEN /\ exc' = [exc EXCEPT ![r] = Raise("RuntimeError", backend[r].msg)]
            /\ log' = Logged(r, <<Ev("transcribe", "end"),
                                  Ev("cleanup", "start"), Ev("cleanup", "end")>>)
            /\ UNCHANGED resp
       ELSE /\ resp' = [resp EXCEPT ![r] =
                           [built |-> TRUE, text |-> backend[r].text, language |-> "en",
                            fields |-> W_ResponseFields]]
            /\ log' = Logged(r, <<Ev("transcribe", "end"),
                                  Ev("cleanup", "start"), Ev("cleanup", "end"),
                                  Ev("respond", "start"), Ev("respond", "end")>>)
            /\ UNCHANGED exc
    /\ pc' = [pc EXCEPT ![r] = "http"]
    /\ ModelReadOnly
    /\ UNCHANGED <<ServerVars, metrics_model_load, probe, timing, cleanup_error, variant, upload, owner, temp_dir, outBound, procPath,
                   conv, backend, status, detail, spawns, calls>>

\* transcription.py transcribe_file_upload: the coroutine resumes on the loop
\* thread; it builds the response, or the backend's error is logged and
\* re-raised.
W_Respond(r) ==
    /\ variant = "whisper"
    /\ pc[r] = "backend_done"
    /\ loop = 0
    /\ loop' = r
    /\ IF backend[r].state = "raised"
       THEN /\ exc' = [exc EXCEPT ![r] = Raise("RuntimeError", backend[r].msg)]
            /\ log' = Logged(r, <<Ev("transcribe", "end")>>)
            /\ UNCHANGED resp
       ELSE /\ resp' = [resp EXCEPT ![r] =
                           [built |-> TRUE, text |-> backend[r].text, language |-> "en",
                            fields |-> W_ResponseFields]]
            /\ log' = Logged(r, <<Ev("transcribe", "end"),
                                  Ev("respond", "start"), Ev("respond", "end")>>)
            /\ UNCHANGED exc
    /\ pc' = [pc EXCEPT ![r] = "finally"]
    /\ ModelReadOnly
    /\ UNCHANGED <<ServerVars, metrics_model_load, probe, timing, cleanup_error, variant, upload, dirs, files, owner, temp_dir, outBound, procPath,
                   conv, backend, status, detail, spawns, calls>>

\* transcription.py transcribe_file_upload, finally block: if the normalized
\* file's path is bound and the file exists it is unlinked, and its
\* directory removed when empty.
W_Finally(r) ==
    /\ variant = "whisper"
    /\ pc[r] = "finally"
    /\ loop = r
    /\ IF procPath[r] # Unbound /\ procPath[r] \in files
       THEN \E o \in CleanupOutcomesFor(procPath[r], files) :
              LET res == CleanupPhase(o, procPath[r], dirs, files, exc[r])
              IN  /\ dirs' = res.dirs
                  /\ files' = res.files
                  /\ cleanup_error' = [cleanup_error EXCEPT ![r] = res.logged]
                  /\ exc' = [exc EXCEPT ![r] = res.exc]
       ELSE UNCHANGED <<dirs, files, cleanup_error, exc>>
    /\ log' = Logged(r, <<Ev("cleanup", "start"), Ev("cleanup", "end")>>)
    /\ pc' = [pc EXCEPT ![r] = "http"]
    /\ ModelReadOnly
    /\ UNCHANGED <<ServerVars, metrics_model_load, probe, timing, variant, loop, upload, owner, temp_dir, outBound, procPath, conv,
                   backend, resp, status, detail, spawns, calls>>

\* main.py transcribe_audio: the result is returned (200); any exception of
\* the service becomes HTTPException(500, "Transcription failed: ...").
W_Http(r) ==
    /\ variant = "whisper"
    /\ pc[r] = "http"
    /\ loop = r
    /\ IF exc[r].type = "none"
       THEN /\ status' = [status EXCEPT ![r] = 200]
            /\ UNCHANGED detail
       ELSE /\ status' = [status EXCEPT ![r] = 500]
            /\ detail' = [detail EXCEPT ![r] = <<"Transcription failed:">> \o exc[r].msg]
    /\ loop' = 0
    /\ pc' = [pc EXCEPT ![r] = "done"]
    /\ ModelReadOnly
    /\ UNCHANGED <<ServerVars, metrics_model_load, probe, timing, cleanup_error, variant, upload, dirs, files, owner, temp_dir, outBound, procPath,
                   conv, backend, exc, resp, spawns, calls, log>>

(***************************************************************************)
(* faster-whisper: main.py, transcription.py.  Its audio_utils.py is not   *)
(* part of the sources; the F_Norm* actions follow the Audio Normalizer    *)
(* of the specification (sections 4.2 and 5).                              *)
(***************************************************************************)
\* main.py transcribe_audio: the request is accepted; an empty filename is a
\* ValueError.
F_Receive(r) ==
    /\ variant = "faster"
    /\ service = "ready"
    /\ pc[r] = "idle"
    /\ NextToArrive(r)
    /\ loop = 0
    /\ loop' = r
    /\ \E u \in Uploads :
        /\ upload' = [upload EXCEPT ![r] = u]
        /\ IF u.filename = <<>>
           THEN /\ exc' = [exc EXCEPT ![r] = Raise("ValueError", <<"No filename provided">>)]
                /\ pc' = [pc EXCEPT ![r] = "http"]
           ELSE /\ pc' = [pc EXCEPT ![r] = "validate"]
                /\ UNCHANGED exc
    /\ ModelReadOnly
    /\ UNCHANGED <<ServerVars, metrics_model_load, probe, timing, cleanup_error, variant, dirs, files, owner, temp_dir, outBound, procPath, conv,
                   backend, resp, status, detail, spawns, calls, log>>

\* transcription.py transcribe_file_upload: format validation, before the try.
F_Validate(r) ==
    /\ variant = "faster"
    /\ pc[r] = "validate"
    /\ loop = r
    /\ log' = Logged(r, <<Ev("validate", "start"), Ev("validate", "end")>>)
    /\ IF ~ F_is_valid_audio_format(upload[r].filename)
       THEN /\ exc' = [exc EXCEPT ![r] = Raise("ValueError",
                         <<"Invalid audio format.", MsgSupported,
                           "mp3", "wav", "flac", "m4a", "ogg", "aac", "webm">>)]
            /\ pc' = [pc EXCEPT ![r] = "http"]
       ELSE /\ pc' = [pc EXCEPT ![r] = "mkdtemp"]
            /\ UNCHANGED exc
    /\ ModelReadOnly
    /\ metrics_model_load' = [metrics_model_load EXCEPT ![r] = <<model_load_time>>]
    /\ UNCHANGED <<ServerVars, probe, timing, cleanup_error, variant, loop, upload, dirs, files, owner, temp_dir, outBound,
                   procPath, conv, backend, resp, status, detail, spawns, calls>>

\* Audio Normalizer, steps 1-3: directory, input file, converter process;
\* the wait for the process does not hold the scheduler thread.  A failure
\* to write or to spawn removes what was created.
F_NormStart(r) ==
    /\ variant = "faster"
    /\ pc[r] = "mkdtemp"
    /\ loop = r
    /\ DirNames \ dirs # {}
    /\ LET d == FreshDir(dirs)
       IN  \/ /\ dirs' = dirs \cup {d}
              /\ log' = Logged(r, <<Ev("normalize", "start")>>)
              /\ owner' = [owner EXCEPT ![d] = r]
              /\ temp_dir' = [temp_dir EXCEPT ![r] = d]
              /\ files' = files \cup {PathOf(d, "in")}
              /\ conv' = [conv EXCEPT ![r] = [NoConv EXCEPT !.state = "running"]]
              /\ spawns' = [spawns EXCEPT ![r] = @ + 1]
              /\ loop' = 0
              /\ pc' = [pc EXCEPT ![r] = "converting"]
              /\ UNCHANGED exc
           \/ /\ owner' = [owner EXCEPT ![d] = r]
              /\ temp_dir' = [temp_dir EXCEPT ![r] = d]
              /\ exc' = [exc EXCEPT ![r] = Raise("PreprocessingError", <<"ffmpeg">>)]
              /\ pc' = [pc EXCEPT ![r] = "except"]
              /\ log' = Logged(r, <<Ev("normalize", "start"), Ev("normalize", "end")>>)
              /\ UNCHANGED <<dirs, files, conv, spawns, loop>>
    /\ ModelReadOnly
    /\ UNCHANGED <<ServerVars, metrics_model_load, probe, timing, cleanup_error, variant, upload, outBound, procPath, backend, resp, status,
                   detail, calls>>

\* Audio Normalizer, step 4: the converter exits.
F_NormWait(r) ==
    /\ variant = "faster"
    /\ pc[r] = "converting"
    /\ \E o \in ConvOutcomes :
        /\ conv' = [conv EXCEPT ![r] = [state |-> "exited", rc |-> o.rc, err |-> o.err,
                                        out |-> o.out, big |-> FALSE]]
        /\ files' = IF o.out THEN files \cup {OutPath(r)} ELSE files
    /\ pc' = [pc EXCEPT ![r] = "check_exit"]
    /\ ModelReadOnly
    /\ UNCHANGED <<ServerVars, metrics_model_load, probe, timing, cleanup_error, variant, loop, upload, dirs, owner, temp_dir, outBound, procPath,
                   backend, exc, resp, status, detail, spawns, calls, log>>

\* Audio Normalizer, steps 4-6: success needs exit code 0 and the output
\* file; then the input file is deleted.  Otherwise input, output and
\* directory are deleted and a PreprocessingError carries the diagnostic.
F_NormFinish(r) ==
    /\ variant = "faster"
    /\ pc[r] = "check_exit"
    /\ loop = 0
    /\ loop' = r
    /\ log' = Logged(r, <<Ev("normalize", "end")>>)
    /\ IF conv[r].rc = 0 /\ OutPath(r) \in files
       THEN /\ files' = files \ {InPath(r)}
            /\ procPath' = [procPath EXCEPT ![r] = OutPath(r)]
            /\ pc' = [pc EXCEPT ![r] = "dispatch"]
            /\ UNCHANGED <<dirs, exc>>
       ELSE /\ files' = files \ {InPath(r), OutPath(r)}
            /\ dirs' = dirs \ {temp_dir[r]}
            /\ exc' = [exc EXCEPT ![r] = Raise("PreprocessingError",
                         IF conv[r].err = MsgInvalidData
                         THEN <<"corrupt or unsupported audio">>
                         ELSE <<conv[r].err>>)]
            /\ pc' = [pc EXCEPT ![r] = "except"]
            /\ UNCHANGED procPath
    /\ ModelReadOnly
    /\ UNCHANGED <<ServerVars, metrics_model_load, probe, timing, cleanup_error, variant, upload, owner, temp_dir, outBound, conv, backend, resp,
                   status, detail, spawns, calls>>

\* transcription.py transcribe_file_upload: run_in_executor(None, ...).
F_Dispatch(r) ==
    /\ variant = "faster"
    /\ pc[r] = "dispatch"
    /\ loop = r
    /\ backend' = [backend EXCEPT ![r] =
                      [state |-> "running", arg |-> procPath[r], msg |-> <<>>, text |-> ""]]
    /\ calls' = [calls EXCEPT ![r] = @ + 1]
    /\ loop' = 0
    /\ pc' = [pc EXCEPT ![r] = "backend_running"]
    /\ log' = Logged(r, <<Ev("transcribe", "start")>>)
    /\ ModelReadOnly
    /\ UNCHANGED <<ServerVars, metrics_model_load, probe, timing, cleanup_error, variant, upload, dirs, files, owner, temp_dir, outBound, procPath,
                   conv, exc, resp, status, detail, spawns>>

\* transcription.py _transcribe_audio_file, on a pool thread; any failure is
\* re-raised as RuntimeError("Transcription process failed: ...").
F_TranscribeAudioFile(r) ==
    /\ variant = "faster"
    /\ pc[r] = "backend_running"
    /\ \/ /\ backend[r].arg \in files
          /\ backend' = [backend EXCEPT ![r].state = "returned", ![r].text = "hello"]
       \/ /\ backend[r].arg \in files
          /\ backend' = [backend EXCEPT ![r].state = "raised",
                            ![r].msg = <<"Transcription process failed:", MsgBackendFail>>]
       \/ /\ backend[r].arg \notin files
          /\ backend' = [backend EXCEPT ![r].state = "raised",
                            ![r].msg = <<"Transcription process failed:", MsgNoSuchFile>>]
    /\ pc' = [pc EXCEPT ![r] = "backend_done"]
    /\ ModelReadOnly
    /\ UNCHANGED <<ServerVars, metrics_model_load, probe, timing, cleanup_error, variant, loop, upload, dirs, files, owner, temp_dir, outBound,
                   procPath, conv, exc, resp, status, detail, spawns, calls, log>>

\* transcription.py transcribe_file_upload: the coroutine resumes and builds
\* the response, or the backend's error surfaces inside the try.
F_Respond(r) ==
    /\ variant = "faster"
    /\ pc[r] = "backend_done"
    /\ loop = 0
    /\ loop' = r
    /\ IF backend[r].state = "raised"
       THEN /\ exc' = [exc EXCEPT ![r] = Raise("RuntimeError", backend[r].msg)]
            /\ log' = Logged(r, <<Ev("transcribe", "end")>>)
            /\ pc' = [pc EXCEPT ![r] = "except"]
            /\ UNCHANGED resp
       ELSE /\ resp' = [resp EXCEPT ![r] =
                           [built |-> TRUE, text |-> backend[r].text, language |-> "en",
                            fields |-> F_ResponseFields]]
            /\ log' = Logged(r, <<Ev("transcribe", "end"),
                                  Ev("respond", "start"), Ev("respond", "end")>>)
            /\ pc' = [pc EXCEPT ![r] = "finally"]
            /\ UNCHANGED exc
    /\ ModelReadOnly
    /\ UNCHANGED <<ServerVars, metrics_model_load, probe, timing, cleanup_error, variant, upload, dirs, files, owner, temp_dir, outBound, procPath,
                   conv, backend, status, detail, spawns, calls>>

\* An except clause that re-raises what it caught.
F_Except_Reraise(r) ==
    /\ variant = "faster"
    /\ pc[r] = "except"
    /\ loop = r
    /\ pc' = [pc EXCEPT ![r] = "finally"]
    /\ ModelReadOnly
    /\ UNCHANGED <<ServerVars, metrics_model_load, probe, timing, cleanup_error, variant, loop, upload, dirs, files, owner,
                   temp_dir, outBound, procPath, conv, backend, exc, resp, status, detail,
                   spawns, calls, log>>

\* transcription.py transcribe_file_upload, except clause: every exception
\* of the try is replaced by RuntimeError("Transcription failed: ...").
F_Except(r) ==
    /\ variant = "faster"
    /\ pc[r] = "except"
    /\ loop = r
    /\ exc' = [exc EXCEPT ![r] = Raise("RuntimeError",
                 <<"Transcription failed:">> \o exc[r].msg)]
    /\ pc' = [pc EXCEPT ![r] = "finally"]
    /\ ModelReadOnly
    /\ UNCHANGED <<ServerVars, metrics_model_load, probe, timing, cleanup_error, variant, loop, upload, dirs, files, owner, temp_dir, outBound,
                   procPath, conv, backend, resp, status, detail, spawns, calls, log>>

\* transcription.py transcribe_file_upload, finally block.
F_Finally(r) ==
    /\ variant = "faster"
    /\ pc[r] = "finally"
    /\ loop = r
    /\ IF procPath[r] # Unbound /\ procPath[r] \in files
       THEN \E o \in CleanupOutcomesFor(procPath[r], files) :
              LET res == CleanupPhase(o, procPath[r], dirs, files, exc[r])
              IN  /\ dirs' = res.dirs
                  /\ files' = res.files
                  /\ cleanup_error' = [cleanup_error EXCEPT ![r] = res.logged]
                  /\ exc' = [exc EXCEPT ![r] = res.exc]
       ELSE UNCHANGED <<dirs, files, cleanup_error, exc>>
    /\ log' = Logged(r, <<Ev("cleanup", "start"), Ev("cleanup", "end")>>)
    /\ pc' = [pc EXCEPT ![r] = "http"]
    /\ ModelReadOnly
    /\ UNCHANGED <<ServerVars, metrics_model_load, probe, timing, variant, loop, upload, owner, temp_dir, outBound, procPath, conv,
                   backend, resp, status, detail, spawns, calls>>

\* main.py transcribe_audio: ValueError becomes 400, anything else 500.
F_Http(r) ==
    /\ variant = "faster"
    /\ pc[r] = "http"
    /\ loop = r
    /\ IF exc[r].type = "none"
       THEN /\ status' = [status EXCEPT ![r] = 200]
            /\ UNCHANGED detail
       ELSE /\ status' = [status EXCEPT ![r] = IF exc[r].type = "ValueError" THEN 400 ELSE 500]
            /\ detail' = [detail EXCEPT ![r] = exc[r].msg]
    /\ loop' = 0
    /\ pc' = [pc EXCEPT ![r] = "done"]
    /\ ModelReadOnly
    /\ UNCHANGED <<ServerVars, metrics_model_load, probe, timing, cleanup_error, variant, upload, dirs, files, owner, temp_dir, outBound, procPath,
                   conv, backend, exc, resp, spawns, calls, log>>

(***************************************************************************)
(* groq-api: main.py, audio_utils.py                                       *)
(***************************************************************************)
\* What preprocess_audio returns second: the elapsed seconds, not a path.
ElapsedSeconds == <<0, "seconds">>
IsPath(v) == v # Unbound /\ v[2] \in {"in", "out"}

\* main.py transcribe_audio: the request is accepted and its format checked.
G_Receive(r) ==
    /\ variant = "groq"
    /\ service = "ready"
    /\ pc[r] = "idle"
    /\ NextToArrive(r)
    /\ loop = 0
    /\ log' = Logged(r, <<Ev("validate", "start"), Ev("validate", "end")>>)
    /\ \E u \in Uploads :
        /\ upload' = [upload EXCEPT ![r] = u]
        /\ IF ~ G_is_valid_audio_format(u.filename)
           THEN /\ status' = [status EXCEPT ![r] = 400]
                /\ detail' = [detail EXCEPT ![r] =
                                 <<"Invalid file format.", MsgSupported,
                                   "mp3", "wav", "m4a", "flac", "ogg", "aac">>]
                /\ pc' = [pc EXCEPT ![r] = "done"]
                /\ loop' = 0
           ELSE /\ pc' = [pc EXCEPT ![r] = "mkdtemp"]
                /\ loop' = r
                /\ UNCHANGED <<status, detail>>
    /\ ModelReadOnly
    /\ UNCHANGED <<ServerVars, metrics_model_load, probe, timing, cleanup_error, variant, dirs, files, owner, temp_dir, outBound, procPath, conv,
                   backend, exc, resp, spawns, calls>>

\* audio_utils.py preprocess_audio: tempfile.mkdtemp().
G_Mkdtemp(r) ==
    /\ variant = "groq"
    /\ pc[r] = "mkdtemp"
    /\ loop = r
    /\ DirNames \ dirs # {}
    /\ LET d == FreshDir(dirs)
       IN  /\ dirs' = dirs \cup {d}
           /\ owner' = [owner EXCEPT ![d] = r]
           /\ temp_dir' = [temp_dir EXCEPT ![r] = d]
    /\ pc' = [pc EXCEPT ![r] = "write"]
    /\ log' = Logged(r, <<Ev("normalize", "start")>>)
    /\ ModelReadOnly
    /\ UNCHANGED <<ServerVars, metrics_model_load, probe, timing, cleanup_error, variant, loop, upload, files, outBound, procPath, conv,
                   backend, exc, resp, status, detail, spawns, calls>>

\* audio_utils.py preprocess_audio: the input file is written outside any
\* try; a failure propagates as it is, with nothing removed.
G_WriteInput(r) ==
    /\ variant = "groq"
    /\ pc[r] = "write"
    /\ loop = r
    /\ \E o \in {"ok", "fail_partial", "fail_nofile"} :
        /\ files' = IF o = "fail_nofile" THEN files ELSE files \cup {InPath(r)}
        /\ IF o = "ok"
           THEN /\ outBound' = [outBound EXCEPT ![r] = TRUE]
                /\ pc' = [pc EXCEPT ![r] = "spawn"]
                /\ UNCHANGED <<exc, log>>
           ELSE /\ exc' = [exc EXCEPT ![r] = Raise("OSError", <<"No space left on device">>)]
                /\ pc' = [pc EXCEPT ![r] = "http"]
                /\ log' = Logged(r, <<Ev("normalize", "end")>>)
                /\ UNCHANGED outBound
    /\ ModelReadOnly
    /\ UNCHANGED <<ServerVars, metrics_model_load, probe, timing, cleanup_error, variant, loop, upload, dirs, owner, temp_dir, procPath, conv,
                   backend, resp, status, detail, spawns, calls>>

\* audio_utils.py preprocess_audio: subprocess.run starts ffmpeg; a missing
\* executable is a FileNotFoundError, which the except clause does not catch.
G_Run(r) ==
    /\ variant = "groq"
    /\ pc[r] = "spawn"
    /\ loop = r
    /\ \/ /\ conv' = [conv EXCEPT ![r] = [NoConv EXCEPT !.state = "running"]]
          /\ spawns' = [spawns EXCEPT ![r] = @ + 1]
          /\ pc' = [pc EXCEPT ![r] = "converting"]
          /\ UNCHANGED <<exc, log>>
       \/ /\ exc' = [exc EXCEPT ![r] = Raise("FileNotFoundError", <<"ffmpeg">>)]
          /\ pc' = [pc EXCEPT ![r] = "http"]
          /\ log' = Logged(r, <<Ev("normalize", "end")>>)
          /\ UNCHANGED <<conv, spawns>>
    /\ ModelReadOnly
    /\ UNCHANGED <<ServerVars, metrics_model_load, probe, timing, cleanup_error, variant, loop, upload, dirs, files, owner, temp_dir, outBound,
                   procPath, backend, resp, status, detail, calls>>

\* audio_utils.py preprocess_audio: subprocess.run(check=True) returns on the
\* loop thread when ffmpeg has exited.  A non-zero exit is re-raised as
\* RuntimeError; otherwise (Path, seconds) is returned, which main.py
\* unpacks as (preprocessed_filename, preprocessed_path).
G_RunReturn(r) ==
    /\ variant = "groq"
    /\ pc[r] = "converting"
    /\ loop = r
    /\ log' = Logged(r, <<Ev("normalize", "end")>>)
    /\ \E o \in ConvOutcomes, big \in BOOLEAN :
        /\ big => o.out
        /\ conv' = [conv EXCEPT ![r] = [state |-> "exited", rc |-> o.rc, err |-> o.err,
                                        out |-> o.out, big |-> big]]
        /\ files' = IF o.out THEN files \cup {OutPath(r)} ELSE files
        /\ IF o.rc # 0
           THEN /\ exc' = [exc EXCEPT ![r] = Raise("RuntimeError",
                             <<"Audio preprocessing failed:", "returned non-zero exit status">>)]
                /\ pc' = [pc EXCEPT ![r] = "http"]
                /\ UNCHANGED procPath
           ELSE /\ procPath' = [procPath EXCEPT ![r] = ElapsedSeconds]
                /\ pc' = [pc EXCEPT ![r] = "size_check"]
                /\ UNCHANGED exc
    /\ ModelReadOnly
    /\ UNCHANGED <<ServerVars, metrics_model_load, probe, timing, cleanup_error, variant, loop, upload, dirs, owner, temp_dir, outBound, backend,
                   resp, status, detail, spawns, calls>>

\* main.py transcribe_audio: get_file_size_mb(preprocessed_path) calls
\* os.path.getsize, a TypeError for a float and an OSError for a missing file;
\* for too large a file HTTPException(400) is raised inside the try.
G_SizeCheck(r) ==
    /\ variant = "groq"
    /\ pc[r] = "size_check"
    /\ loop = r
    /\ IF ~ IsPath(procPath[r])
       THEN /\ exc' = [exc EXCEPT ![r] = Raise("TypeError",
                         <<"stat: path should be string, bytes, os.PathLike or integer, not float">>)]
            /\ pc' = [pc EXCEPT ![r] = "http"]
       ELSE IF procPath[r] \notin files
       THEN /\ exc' = [exc EXCEPT ![r] = Raise("OSError", <<MsgNoSuchFile>>)]
            /\ pc' = [pc EXCEPT ![r] = "http"]
       ELSE IF conv[r].big
       THEN /\ exc' = [exc EXCEPT ![r] = Raise("HTTPException",
                         <<"400:", MsgFileTooLarge, "Maximum size:">>)]
            /\ pc' = [pc EXCEPT ![r] = "http"]
       ELSE /\ pc' = [pc EXCEPT ![r] = "dispatch"]
            /\ UNCHANGED exc
    /\ ModelReadOnly
    /\ UNCHANGED <<ServerVars, metrics_model_load, probe, timing, cleanup_error, variant, loop, upload, dirs, files, owner, temp_dir, outBound,
                   procPath, conv, backend, resp, status, detail, spawns, calls, log>>

\* main.py transcribe_audio, except clause: HTTPException(500, str(e)).
G_Http(r) ==
    /\ variant = "groq"
    /\ pc[r] = "http"
    /\ loop = r
    /\ IF exc[r].type = "none"
       THEN /\ status' = [status EXCEPT ![r] = 200]
            /\ UNCHANGED detail
       ELSE /\ status' = [status EXCEPT ![r] = 500]
            /\ detail' = [detail EXCEPT ![r] = exc[r].msg]
    /\ loop' = 0
    /\ pc' = [pc EXCEPT ![r] = "done"]
    /\ ModelReadOnly
    /\ UNCHANGED <<ServerVars, metrics_model_load, probe, timing, cleanup_error, variant, upload, dirs, files, owner, temp_dir, outBound, procPath,
                   conv, backend, exc, resp, spawns, calls, log>>

(***************************************************************************)
(* groq-api: transcription.py, TranscriptionService.transcribe             *)
(***************************************************************************)
\* transcription.py transcribe: a coroutine calls transcribe(file_path) with
\* the path preprocess_audio returned: the file is in a directory of its
\* own, beside the input file that preprocess_audio leaves behind; the
\* converter may not have written it.
G_TranscribeCall(r) ==
    /\ variant = "groq_service"
    /\ service = "ready"
    /\ pc[r] = "idle"
    /\ NextToArrive(r)
    /\ loop = 0
    /\ loop' = r
    /\ DirNames \ dirs # {}
    /\ LET d == FreshDir(dirs)
       IN  /\ dirs' = dirs \cup {d}
           /\ owner' = [owner EXCEPT ![d] = r]
           /\ temp_dir' = [temp_dir EXCEPT ![r] = d]
           /\ procPath' = [procPath EXCEPT ![r] = PathOf(d, "out")]
           /\ \E written \in BOOLEAN :
                files' = files \cup {PathOf(d, "in")}
                               \cup (IF written THEN {PathOf(d, "out")} ELSE {})
    /\ pc' = [pc EXCEPT ![r] = "dispatch"]
    /\ ModelReadOnly
    /\ UNCHANGED <<ServerVars, metrics_model_load, probe, timing, cleanup_error, variant, upload, outBound, conv, backend, exc, resp,
                   status, detail, spawns, calls, log>>

\* transcription.py transcribe: the file is opened and the API call handed to
\* run_in_executor; a missing file raises inside the try.
G_TranscribeDispatch(r) ==
    /\ variant = "groq_service"
    /\ pc[r] = "dispatch"
    /\ loop = r
    /\ IF procPath[r] \in files
       THEN /\ backend' = [backend EXCEPT ![r] =
                   [state |-> "running", arg |-> procPath[r], msg |-> <<>>, text |-> ""]]
            /\ calls' = [calls EXCEPT ![r] = @ + 1]
            /\ loop' = 0
            /\ pc' = [pc EXCEPT ![r] = "backend_running"]
            /\ log' = Logged(r, <<Ev("transcribe", "start")>>)
            /\ UNCHANGED exc
       ELSE /\ exc' = [exc EXCEPT ![r] = Raise("FileNotFoundError", <<MsgNoSuchFile>>)]
            /\ pc' = [pc EXCEPT ![r] = "finally"]
            /\ UNCHANGED <<backend, calls, loop, log>>
    /\ ModelReadOnly
    /\ UNCHANGED <<ServerVars, metrics_model_load, probe, timing, cleanup_error, variant, upload, dirs, files, owner, temp_dir, outBound,
                   procPath, conv, resp, status, detail, spawns>>

\* transcription.py _execute_transcription, on a pool thread: the file is
\* opened again and sent to the API, which answers or raises.
G_ExecuteTranscription(r) ==
    /\ variant = "groq_service"
    /\ pc[r] = "backend_running"
    /\ \/ /\ backend[r].arg \in files
          /\ backend' = [backend EXCEPT ![r].state = "returned", ![r].text = "hello"]
       \/ /\ backend[r].arg \in files
          /\ backend' = [backend EXCEPT ![r].state = "raised",
                            ![r].msg = <<MsgBackendFail>>]
       \/ /\ backend[r].arg \notin files
          /\ backend' = [backend EXCEPT ![r].state = "raised",
                            ![r].msg = <<MsgNoSuchFile>>]
    /\ pc' = [pc EXCEPT ![r] = "backend_done"]
    /\ ModelReadOnly
    /\ UNCHANGED <<ServerVars, metrics_model_load, probe, timing, cleanup_error, variant, loop, upload, dirs, files, owner, temp_dir, outBound,
                   procPath, conv, exc, resp, status, detail, spawns, calls, log>>

\* transcription.py transcribe: the coroutine resumes; the result is
\* formatted, or the error is logged and re-raised.
G_TranscribeResume(r) ==
    /\ variant = "groq_service"
    /\ pc[r] = "backend_done"
    /\ loop = 0
    /\ loop' = r
    /\ IF backend[r].state = "raised"
       THEN /\ exc' = [exc EXCEPT ![r] = Raise("APIError", backend[r].msg)]
            /\ log' = Logged(r, <<Ev("transcribe", "end")>>)
            /\ UNCHANGED resp
       ELSE /\ resp' = [resp EXCEPT ![r] =
                           [built |-> TRUE, text |-> backend[r].text, language |-> "",
                            fields |-> G_ResponseFields]]
            /\ log' = Logged(r, <<Ev("transcribe", "end"),
                                  Ev("respond", "start"), Ev("respond", "end")>>)
            /\ UNCHANGED exc
    /\ pc' = [pc EXCEPT ![r] = "finally"]
    /\ ModelReadOnly
    /\ UNCHANGED <<ServerVars, metrics_model_load, probe, timing, cleanup_error, variant, upload, dirs, files, owner, temp_dir, outBound, procPath,
                   conv, backend, status, detail, spawns, calls>>

\* transcription.py transcribe, finally block; then the result or the
\* exception is back with the caller.
G_TranscribeFinally(r) ==
    /\ variant = "groq_service"
    /\ pc[r] = "finally"
    /\ loop = r
    /\ IF procPath[r] \in files
       THEN \E o \in CleanupOutcomesFor(procPath[r], files) :
              LET res == CleanupPhase(o, procPath[r], dirs, files, exc[r])
              IN  /\ dirs' = res.dirs
                  /\ files' = res.files
                  /\ cleanup_error' = [cleanup_error EXCEPT ![r] = res.logged]
                  /\ exc' = [exc EXCEPT ![r] = res.exc]
       ELSE UNCHANGED <<dirs, files, cleanup_error, exc>>
    /\ log' = Logged(r, <<Ev("cleanup", "start"), Ev("cleanup", "end")>>)
    /\ pc' = [pc EXCEPT ![r] = "caller"]
    /\ ModelReadOnly
    /\ UNCHANGED <<ServerVars, metrics_model_load, probe, timing, variant, loop, upload, owner, temp_dir, outBound, procPath, conv,
                   backend, resp, status, detail, spawns, calls>>

\* The calling coroutine ends.
G_TranscribeReturn(r) ==
    /\ variant = "groq_service"
    /\ pc[r] = "caller"
    /\ loop = r
    /\ loop' = 0
    /\ pc' = [pc EXCEPT ![r] = "done"]
    /\ ModelReadOnly
    /\ UNCHANGED <<ServerVars, metrics_model_load, probe, timing, cleanup_error, variant, upload, dirs, files, owner, temp_dir, outBound, procPath,
                   conv, backend, exc, resp, status, detail, spawns, calls, log>>

Next ==
    \E r \in Requests :
        \/ W_Receive(r)
        \/ W_Validate(r)
        \/ W_Mkdtemp(r)
        \/ W_WriteInput(r)
        \/ W_Spawn(r)
        \/ W_Communicate(r)
        \/ W_CheckExit(r)
        \/ W_NormExcept(r)
        \/ W_Dispatch(r)
        \/ W_TranscribeAudioFile(r)
        \/ W_Respond(r)
        \/ W_Finally(r)
        \/ W_Http(r)
        \/ F_Receive(r)
        \/ F_Validate(r)
        \/ F_NormStart(r)
        \/ F_NormWait(r)
        \/ F_NormFinish(r)
        \/ F_Dispatch(r)
        \/ F_TranscribeAudioFile(r)
        \/ F_Respond(r)
        \/ F_Except(r)
        \/ F_Finally(r)
        \/ F_Http(r)
        \/ G_Receive(r)
        \/ G_Mkdtemp(r)
        \/ G_WriteInput(r)
        \/ G_Run(r)
        \/ G_RunReturn(r)
        \/ G_SizeCheck(r)
        \/ G_Http(r)
        \/ G_TranscribeCall(r)
        \/ G_TranscribeDispatch(r)
        \/ G_ExecuteTranscription(r)
        \/ G_TranscribeResume(r)
        \/ G_TranscribeFinally(r)
        \/ G_TranscribeReturn(r)

Spec == Init /\ [][Next]_vars

(***************************************************************************)
(* The format validator on its own: a filename is handed to                *)
(* is_valid_audio_format and the answer recorded.                          *)
(***************************************************************************)
ProbeStems ==
    { <<>>,
      <<"c", "l", "i", "p">>,
      <<".">>,
      <<"a", ".", "b">>,
      <<"d", "/">>,
      <<"d", ".", "d", "/", "x">>,
      <<".", ".">>,
      <<"R", "E", "C">> }

ProbeSuffixes ==
    { <<>>,
      <<".", "m", "p", "3">>,
      <<".", "M", "P", "3">>,
      <<".", "M", "p", "3">>,
      <<".", "w", "a", "v">>,
      <<".", "W", "A", "V">>,
      <<".", "m", "4", "a">>,
      <<".", "M", "4", "A">>,
      <<".", "f", "l", "a", "c">>,
      <<".", "F", "l", "a", "C">>,
      <<".", "o", "g", "g">>,
      <<".", "O", "G", "G">>,
      <<".", "a", "a", "c">>,
      <<".", "A", "A", "C">>,
      <<".", "w", "e", "b", "m">>,
      <<".", "W", "E", "B", "M">>,
      <<".", "t", "x", "t">>,
      <<".", "m", "p", "4">>,
      <<"m", "p", "3">>,
      <<".", "m", "p", "3", ".">>,
      <<".", "w", "a", "v", "e">>,
      <<".">>,
      <<".", "w", "a", "v", "/", "x">>,
      <<".", "m", "p", "3", ".", "t", "x", "t">>,
      <<".", "t", "x", "t", ".", "o", "g", "g">> }

ProbeFilenames == {s \o e : s \in ProbeStems, e \in ProbeSuffixes}

Answer(b) == IF b THEN "true" ELSE "false"

MainVars == <<loop, pc, upload, dirs, files, owner, temp_dir, outBound, procPath,
              conv, backend, exc, resp, status, detail, spawns, calls, log,
              cleanup_error, metrics_model_load, ServiceVars, ServerVars>>

InitFmt ==
    /\ variant \in Variants
    /\ timing = NoTiming
    /\ probe \in [filename : ProbeFilenames, result : {"none"}]
    /\ Idle
    /\ Constructed
    /\ ServerIdle

W_CheckFormat ==
    /\ variant = "whisper"
    /\ probe.result = "none"
    /\ probe' = [probe EXCEPT !.result = Answer(W_is_valid_audio_format(probe.filename))]
    /\ UNCHANGED <<variant, timing, MainVars>>

G_CheckFormat ==
    /\ variant = "groq"
    /\ probe.result = "none"
    /\ probe' = [probe EXCEPT !.result = Answer(G_is_valid_audio_format(probe.filename))]
    /\ UNCHANGED <<variant, timing, MainVars>>

F_CheckFormat ==
    /\ variant = "faster"
    /\ probe.result = "none"
    /\ probe' = [probe EXCEPT !.result = Answer(F_is_valid_audio_format(probe.filename))]
    /\ UNCHANGED <<variant, timing, MainVars>>

NextFmt == W_CheckFormat \/ G_CheckFormat \/ F_CheckFormat

SpecFmt == InitFmt /\ [][NextFmt]_vars

(***************************************************************************)
(* The metrics aggregation on its own: stage timings are handed to the     *)
(* arithmetic of transcribe_file_upload and the response fields recorded.  *)
(* Time is counted in ticks, TicksPerMs of them to the millisecond.        *)
(***************************************************************************)
TicksPerMs == 5
\* Longest duration, in ticks, of the short stages and the time between stages.
MaxMinorDuration == 1

MinorDurations == 0..MaxMinorDuration

\* Python's round() on num/den: to the nearest integer, ties to the even one.
RoundHalfEven(num, den) ==
    LET q == num \div den
        rem == num % den
    IN  IF 2 * rem < den THEN q
        ELSE IF 2 * rem > den THEN q + 1
        ELSE IF q % 2 = 0 THEN q ELSE q + 1

\* round(seconds * 1000)
ToMs(ticks) == RoundHalfEven(ticks, TicksPerMs)

\* The stage timings a request can have when the backend has returned:
\* validation and audio_preprocessing measured by the orchestrator, the
\* others by _transcribe_audio_file (whisper measures feature_extraction,
\* faster-whisper measures a cleanup of its own instead).
StageTimings(v) ==
    { [ZeroMetrics EXCEPT
          !.model_load = ml, !.validation = va, !.audio_preprocessing = ap,
          !.audio_loading = al,
          !.feature_extraction = IF v = "whisper" THEN x ELSE 0,
          !.model_inference = mi, !.decoding = de, !.postprocessing = po,
          !.cleanup = IF v = "faster" THEN x ELSE 0] :
        ml \in Durations, va \in MinorDurations, ap \in Durations,
        al \in MinorDurations, x \in MinorDurations, mi \in Durations,
        de \in MinorDurations, po \in MinorDurations }

\* time.time() - total_start: the stages follow one another inside the
\* request, with some time in between that no stage accounts for.
WallClock(m, unaccounted) ==
    m.validation + m.audio_preprocessing + m.audio_loading + m.feature_extraction
        + m.model_inference + m.decoding + m.postprocessing + m.cleanup + unaccounted

\* sum(metrics.values())
SumOfValues(m) ==
    m.model_load + m.validation + m.audio_preprocessing + m.audio_loading
        + m.feature_extraction + m.model_inference + m.decoding + m.postprocessing
        + m.cleanup + m.overhead + m.total

\* whisper transcription.py: metrics["overhead"] from the metrics collected so
\* far, total included.
W_Overhead(m) ==
    LET measured_time == SumOfValues(m) - m.total - m.model_load - m.overhead
    IN  m.total - measured_time - m.model_load

\* The overhead with model_load taken off as well.
F_Overhead_LessModelLoad(m) ==
    LET measured_time == SumOfValues(m) - m.total - m.model_load
    IN  m.total - measured_time - m.model_load

\* faster-whisper transcription.py: metrics["overhead"] likewise.
F_Overhead(m) ==
    LET measured_time == SumOfValues(m) - m.total - m.model_load
    IN  m.total - measured_time

InitMetrics ==
    /\ variant \in {"whisper", "faster"}
    /\ probe = NoProbe
    /\ Idle
    /\ Constructed
    /\ ServerIdle
    /\ timing \in [metrics : StageTimings(variant), unaccounted : MinorDurations,
                   cleanup_elapsed : MinorDurations,
                   response : {NoResponseMs}, handed_back : {FALSE}]

\* whisper transcription.py transcribe_file_upload: total, overhead and the
\* millisecond fields of the response.
W_Aggregate ==
    /\ variant = "whisper"
    /\ ~ timing.response.built
    /\ LET m0 == timing.metrics
           total == WallClock(m0, timing.unaccounted)
           m1 == [m0 EXCEPT !.total = total]
           m2 == [m1 EXCEPT !.overhead = W_Overhead(m1)]
       IN  timing' = [timing EXCEPT
               !.metrics = m2,
               !.response =
                   [built |-> TRUE,
                    total_ms |-> ToMs(m2.total),
                    preprocessing_ms |-> ToMs(m2.validation + m2.audio_preprocessing),
                    model_inference_ms |-> ToMs(m2.audio_loading + m2.feature_extraction
                                                + m2.model_inference + m2.decoding),
                    overhead_ms |-> ToMs(m2.overhead)]]
    /\ UNCHANGED <<variant, probe, MainVars>>

\* faster-whisper transcription.py transcribe_file_upload.
F_Aggregate ==
    /\ variant = "faster"
    /\ ~ timing.response.built
    /\ LET m0 == timing.metrics
           total == WallClock(m0, timing.unaccounted)
           m1 == [m0 EXCEPT !.total = total]
           m2 == [m1 EXCEPT !.overhead = F_Overhead(m1)]
           preprocessing_time == m2.validation + m2.audio_preprocessing + m2.audio_loading
           model_time == m2.feature_extraction + m2.model_inference + m2.decoding
                             + m2.postprocessing
       IN  timing' = [timing EXCEPT
               !.metrics = m2,
               !.response =
                   [built |-> TRUE,
                    total_ms |-> ToMs(m2.total),
                    preprocessing_ms |-> ToMs(preprocessing_time),
                    model_inference_ms |-> ToMs(model_time),
                    overhead_ms |-> ToMs(m2.overhead + m2.cleanup)]]
    /\ UNCHANGED <<variant, probe, MainVars>>

\* whisper transcription.py transcribe_file_upload, finally block: the
\* cleanup time is stored in the metrics dict that the return statement has
\* already picked as (part of) the result.
W_RecordCleanup ==
    /\ variant = "whisper"
    /\ timing.response.built
    /\ ~ timing.handed_back
    /\ timing' = [timing EXCEPT !.metrics.cleanup = timing.cleanup_elapsed,
                                !.handed_back = TRUE]
    /\ UNCHANGED <<variant, probe, MainVars>>

\* faster-whisper transcription.py transcribe_file_upload, finally block: the
\* cleanup entry taken from the backend's metrics is overwritten.
F_RecordCleanup ==
    /\ variant = "faster"
    /\ timing.response.built
    /\ ~ timing.handed_back
    /\ timing' = [timing EXCEPT !.metrics.cleanup = timing.cleanup_elapsed,
                                !.handed_back = TRUE]
    /\ UNCHANGED <<variant, probe, MainVars>>

NextMetrics == W_Aggregate \/ F_Aggregate \/ W_RecordCleanup \/ F_RecordCleanup

SpecMetrics == InitMetrics /\ [][NextMetrics]_vars

(***************************************************************************)
(* Properties                                                              *)
(***************************************************************************)
Range(f) == {f[i] : i \in DOMAIN f}
Contains(msg, fragment) == fragment \in Range(msg)

Done(r) == pc[r] = "done"

\* The request got past format validation: its normalize stage was entered.
PassedValidation(r) == Ev("normalize", "start") \in Range(log[r])

\* Temporary directories and files on disk that request r created.
ArtifactsOf(r) ==
    {<<d>> : d \in {e \in dirs : owner[e] = r}}
        \cup {f \in files : owner[f[1]] = r}

\* The extensions the Format Validator is specified to accept.
AcceptedExtensions ==
    { <<"m", "p", "3">>, <<"w", "a", "v">>, <<"m", "4", "a">>,
      <<"f", "l", "a", "c">>, <<"o", "g", "g">>, <<"a", "a", "c">>,
      <<"w", "e", "b", "m">> }

\* The filename ends in a dot and an accepted extension (in any case), and
\* the dot is preceded, within the last path component, by a character that
\* is not itself a dot (so ".mp3" is a hidden file without extension).
HasAcceptedExtension(fn) ==
    \E e \in AcceptedExtensions :
        LET n == Len(fn)
            dot == n - Len(e)
        IN  /\ dot >= 2
            /\ fn[dot] = "."
            /\ Lower(SubSeq(fn, dot + 1, n)) = e
            /\ \E j \in 1..(dot - 1) :
                /\ fn[j] # "."
                /\ \A i \in j..(dot - 1) : fn[i] # "/"

\* The answer of the running variant's format validator.
ValidatorAccepts(fn) ==
    CASE variant = "whisper" -> W_is_valid_audio_format(fn)
      [] variant = "groq"    -> G_is_valid_audio_format(fn)
      [] variant = "faster"  -> F_is_valid_audio_format(fn)
      [] OTHER               -> TRUE

\* The normalizer of request r has failed / has returned a value.
NormFailed(r) ==
    Ev("normalize", "end") \in Range(log[r]) /\ procPath[r] = Unbound
NormReturned(r) == pc[r] \in {"dispatch", "size_check"}

\* The diagnostic the backend raised with.
BackendDiagnostic(r) == backend[r].msg[Len(backend[r].msg)]

StageRank ==
    [validate |-> 1, normalize |-> 2, transcribe |-> 3, respond |-> 4, cleanup |-> 5]

\* Every stage ends before the next event, and stages start in rank order.
InStageOrder(l) ==
    \A i \in 1..Len(l) :
        /\ l[i][2] = "end" => i > 1 /\ l[i - 1] = Ev(l[i][1], "start")
        /\ l[i][2] = "start" /\ i > 1 =>
              /\ l[i - 1][2] = "end"
              /\ StageRank[l[i - 1][1]] < StageRank[l[i][1]]

FullStageLog ==
    <<Ev("validate", "start"), Ev("validate", "end"),
      Ev("normalize", "start"), Ev("normalize", "end"),
      Ev("transcribe", "start"), Ev("transcribe", "end"),
      Ev("respond", "start"), Ev("respond", "end"),
      Ev("cleanup", "start"), Ev("cleanup", "end")>>

\* C1: once a request that passed format validation has returned or raised
\* (success, normalization failure or backend failure), nothing it created
\* is left: not the raw input file, not the normalized file, not its
\* temporary directory.
C1_NoTempArtifactRemains ==
    \A r \in Requests :
        Done(r) /\ PassedValidation(r) => ArtifactsOf(r) = {}

C3_FailedNormalizeCleansUp ==
    \A r \in Requests :
        NormFailed(r) =>
            /\ ArtifactsOf(r) = {}
            /\ exc[r].type \in {"RuntimeError", "PreprocessingError"}

\* C4: after a normalize call that returned, the normalized output file
\* exists in the call's temporary directory and the raw input file of the
\* call no longer exists.
C4_SuccessfulNormalizeLeavesOnlyOutput ==
    \A r \in Requests :
        NormReturned(r) =>
            /\ temp_dir[r] \in dirs
            /\ OutPath(r) \in files
            /\ InPath(r) \notin files

\* C5: an upload with an unsupported extension ("notes.txt") is answered
\* with status 400 and a detail that mentions the supported formats.
C5_UnsupportedExtensionIs400 ==
    \A r \in Requests :
        Done(r) /\ upload[r].filename = FnNotesTxt /\ ~ upload[r].big =>
            /\ status[r] = 400
            /\ Contains(detail[r], MsgSupported)

\* C6: when the format validator answers false for the upload's filename,
\* the request does no file-system or subprocess work: no temporary
\* directory or file is created, no converter is spawned, the backend is
\* not called.
C6_RejectedUploadTouchesNothing ==
    \A r \in Requests :
        pc[r] # "idle" /\ ~ ValidatorAccepts(upload[r].filename) =>
            /\ temp_dir[r] = 0
            /\ ArtifactsOf(r) = {}
            /\ spawns[r] = 0 /\ conv[r].state = "none"
            /\ calls[r] = 0 /\ backend[r].state = "none"

\* A request was rejected by the validator and has been answered.
C6_Witness ==
    \E r \in Requests :
        /\ Done(r)
        /\ ~ ValidatorAccepts(upload[r].filename)
        /\ Ev("validate", "end") \in Range(log[r])
        /\ status[r] \in {400, 500}

\* C7: for every filename (the empty one and those without extension
\* included) is_valid_audio_format answers true exactly when the filename's
\* extension, compared case-insensitively, is one of mp3, wav, m4a, flac,
\* ogg, aac, webm, and false otherwise.
C7_ValidatorAcceptsExactlyListed ==
    probe.result # "none" =>
        (probe.result = "true" <=> HasAcceptedExtension(probe.filename))

\* An upper- or mixed-case accepted extension was answered true.
C7_Witness ==
    /\ probe.result = "true"
    /\ probe.filename # Lower(probe.filename)

\* C8: while a request waits for the external converter to exit, the event
\* loop thread is not held by it, so another request can be accepted and
\* make progress.
C8_ConversionWaitLeavesLoopFree ==
    \A r \in Requests : conv[r].state = "running" => loop # r

\* C9: the backend call of a request runs on a separate worker and is
\* awaited: while it runs, the event loop thread is not held by that
\* request.
C9_BackendRunsOffTheLoop ==
    \A r \in Requests : backend[r].state = "running" => loop # r

\* While one request's backend call runs, another request is being handled
\* on the loop thread.
C9_Witness ==
    \E r, q \in Requests :
        /\ r # q
        /\ backend[r].state = "running"
        /\ loop = q

\* C10: within a request the stages run in the order validate, normalize,
\* transcribe, respond, cleanup, each finished before the next starts; the
\* cleanup of a successful request comes after its response is built.
C10_StagesInOrder ==
    \A r \in Requests :
        /\ InStageOrder(log[r])
        /\ status[r] = 200 => log[r] = FullStageLog

\* A request went through all five stages and was answered 200.
C10_Witness ==
    \E r \in Requests : status[r] = 200 /\ log[r] = FullStageLog

\* The request whose code a step runs: every action moves one request's pc.
Actor(r) == pc'[r] # pc[r]

\* Files and directories a step creates or deletes.
FilesTouched == (files \ files') \cup (files' \ files)
DirsTouched == (dirs \ dirs') \cup (dirs' \ dirs)

\* C11: any two normalize calls, sequential or interleaved, with the same
\* bytes and filename or not, use distinct temporary directories (a name is
\* shared only with a request that is already over), and no request reads,
\* writes or deletes a temporary file or directory that another request
\* created.
C11_RequestsKeepToTheirOwnDirectory ==
    [][\A r \in Requests :
          Actor(r) =>
              /\ \A f \in FilesTouched : f[1] = temp_dir'[r] /\ owner'[f[1]] = r
              /\ \A d \in DirsTouched : d = temp_dir'[r] /\ owner'[d] = r
              /\ backend[r].state = "running" =>
                     /\ backend[r].arg[1] = temp_dir[r]
                     /\ owner[temp_dir[r]] = r
              /\ \A q \in Requests \ {r} :
                     temp_dir'[r] # 0 /\ temp_dir'[q] = temp_dir'[r] =>
                         Done(q) \/ pc'[r] = "done"]_vars

\* Two requests carrying the same filename hold normalized files at the same
\* time, each in its own directory.
C11_Witness ==
    \E r, q \in Requests :
        /\ r # q
        /\ upload[r] = upload[q]
        /\ procPath[r] \in files /\ procPath[q] \in files
        /\ procPath[r] # procPath[q]
        /\ owner[procPath[r][1]] = r /\ owner[procPath[q][1]] = q

\* C12: a failure while deleting the normalized file or its directory in the
\* cleanup phase is logged and swallowed: a request whose response was built
\* still answers with it (200), and a request whose primary error was in
\* flight still propagates that error, not the cleanup error.
C12_CleanupFailureNeverMasks ==
    \A r \in Requests :
        cleanup_error[r] # NoCleanupError =>
            /\ exc[r].type # "PermissionError"
            /\ ~ Contains(detail[r], MsgNotPermitted)
            /\ resp[r].built =>
                   /\ exc[r] = NoExc
                   /\ status[r] \in {0, 200}
            /\ ~ resp[r].built =>
                   /\ exc[r].type \in {"RuntimeError", "APIError"}
                   /\ Contains(exc[r].msg, BackendDiagnostic(r))
                   /\ status[r] \in {0, 500}

\* Cleanup failed once behind a built response that was then sent, and once
\* behind a backend error that was then reported.
C12_Witness ==
    \E r, q \in Requests :
        /\ cleanup_error[r] # NoCleanupError /\ cleanup_error[q] # NoCleanupError
        /\ resp[r].built /\ status[r] = 200
        /\ backend[q].state = "raised" /\ status[q] = 500

\* C13: in every successful response total_ms >= preprocessing_ms +
\* model_inference_ms, each being the value placed in the response, rounded
\* on its own from seconds to whole milliseconds.
C13_TotalCoversPreprocessingAndInference ==
    timing.response.built =>
        timing.response.total_ms >=
            timing.response.preprocessing_ms + timing.response.model_inference_ms

\* C14: in every successful response the reported overhead (the overhead
\* of the metrics and the overhead_ms field) is not negative, whatever the
\* non-negative model_load and stage timings inside the wall-clock total.
C14_OverheadNeverNegative ==
    timing.response.built =>
        /\ timing.metrics.overhead >= 0
        /\ timing.response.overhead_ms >= 0

\* The fields every 200 response is specified to carry.
RequiredFields ==
    {"text", "language", "total_ms", "preprocessing_ms", "model_inference_ms"}

C16_NoStageIsRetried ==
    \A r \in Requests : spawns[r] <= 1 /\ calls[r] <= 1

\* One request ended after its converter exited non-zero, another after its
\* backend call raised; each was started once.
C16_Witness ==
    \E r, q \in Requests :
        /\ Done(r) /\ conv[r].state = "exited" /\ conv[r].rc # 0 /\ spawns[r] = 1
        /\ Done(q) /\ backend[q].state = "raised" /\ calls[q] = 1

\* C17: in the whisper variant an upload larger than MAX_FILE_SIZE_MB is
\* answered 413 before format validation, normalization or the backend call
\* happen: no stage is entered and no temporary file or directory is made.
C17_OversizedUploadIs413 ==
    \A r \in Requests :
        variant = "whisper" /\ pc[r] # "idle" /\ upload[r].big =>
            /\ Done(r)
            /\ status[r] = 413
            /\ Contains(detail[r], "File too large:")
            /\ log[r] = <<>>
            /\ temp_dir[r] = 0 /\ ArtifactsOf(r) = {}
            /\ spawns[r] = 0 /\ calls[r] = 0

\* An oversized upload with a supported and one with an unsupported name
\* were both answered 413.
C17_Witness ==
    \E r, q \in Requests :
        /\ variant = "whisper"
        /\ upload[r].big /\ upload[r].filename = FnClipMp3 /\ status[r] = 413
        /\ upload[q].big /\ upload[q].filename = FnNotesTxt /\ status[q] = 413

\* C18: in the groq variant, when the preprocessed file is larger than
\* MAX_FILE_SIZE_MB the request is answered with status 400 and the detail
\* "File too large. Maximum size: ...", and the backend is not called.
C18_OversizedPreprocessedFileIs400 ==
    \A r \in Requests :
        variant = "groq" /\ Done(r) /\ conv[r].rc = 0 /\ conv[r].big =>
            /\ status[r] = 400
            /\ Contains(detail[r], MsgFileTooLarge)
            /\ calls[r] = 0

\* The cleanup phase of request r has run.
CleanupRan(r) == Ev("cleanup", "end") \in Range(log[r])

\* C19: once the cleanup phase of a request that created a temporary
\* directory has run (without a deletion error), that directory is not left
\* behind empty, on success and on failure alike, also when the normalized
\* file did not exist at cleanup time.
C19_EmptyDirectoryIsRemoved ==
    \A r \in Requests :
        /\ CleanupRan(r)
        /\ cleanup_error[r] = NoCleanupError
        /\ temp_dir[r] # 0
        /\ owner[temp_dir[r]] = r
        /\ temp_dir[r] \in dirs
        => ~ DirEmpty(temp_dir[r], files)

\* The normalize stage of request r is over.
NormEnded(r) == Ev("normalize", "end") \in Range(log[r])

\* C20: the normalizer takes the conversion as successful only if the
\* process exited with code 0 and the output file exists: when the process
\* exits 0 without having written the output file, normalize fails with a
\* preprocessing error instead of returning the output path.
C20_ExitZeroWithoutOutputFails ==
    \A r \in Requests :
        NormEnded(r) /\ conv[r].state = "exited" /\ conv[r].rc = 0 /\ ~ conv[r].out =>
            /\ procPath[r] = Unbound
            /\ exc[r].type \in {"RuntimeError", "PreprocessingError"}
            /\ calls[r] = 0

\* validation + audio_preprocessing + ... + postprocessing + cleanup
MeasuredStages(m) ==
    m.validation + m.audio_preprocessing + m.audio_loading + m.feature_extraction
        + m.model_inference + m.decoding + m.postprocessing + m.cleanup

\* C21: in the metrics record handed back to the caller of
\* transcribe_file_upload, total is at least the sum of all other measured
\* stages of the request, cleanup (as recorded by the cleanup phase of the
\* same request) included.
C21_TotalCoversAllStages ==
    timing.handed_back => timing.metrics.total >= MeasuredStages(timing.metrics)

C23_OnlyValidationFailuresAre400 ==
    \A r \in Requests :
        variant = "faster" /\ Done(r) =>
            /\ status[r] = 400 <=>
                   \/ upload[r].filename = <<>>
                   \/ ~ F_is_valid_audio_format(upload[r].filename)
            /\ PassedValidation(r) /\ exc[r] # NoExc =>
                   /\ exc[r].type = "RuntimeError"
                   /\ status[r] = 500

\* A request that failed in the normalizer was answered 500 with the wrapped
\* error, and one rejected before normalization was answered 400.
C23_Witness ==
    \E r, q \in Requests :
        /\ variant = "faster"
        /\ status[r] = 500 /\ backend[r].state = "none"
        /\ detail[r][1] = "Transcription failed:"
        /\ status[q] = 400 /\ upload[q].filename \in {FnEmpty, FnNotesTxt}

\* The step is the cleanup phase of request r.
CleanupStep(r) == pc[r] = "finally" /\ pc'[r] # "finally"

\* C24: the cleanup phase of a request deletes only that request's
\* normalized audio file and, after it, the file's parent directory only if
\* the directory is then empty: no other file is deleted, no non-empty
\* directory removed, nothing created.
C24_CleanupDeletesOnlyItsOwn ==
    [][\A r \in Requests :
          CleanupStep(r) =>
              /\ files' \subseteq files /\ dirs' \subseteq dirs
              /\ files \ files' \subseteq {procPath[r]}
              /\ \A d \in dirs \ dirs' :
                     /\ procPath[r] # Unbound /\ d = procPath[r][1]
                     /\ owner[d] = r
                     /\ procPath[r] \in files \ files'
                     /\ DirEmpty(d, files')]_vars

\* A cleanup phase has deleted the normalized file and kept its directory,
\* which still holds another file.
C24_Witness ==
    \E r \in Requests :
        /\ CleanupRan(r)
        /\ cleanup_error[r] = NoCleanupError
        /\ procPath[r] # Unbound /\ procPath[r] \notin files
        /\ owner[temp_dir[r]] = r /\ temp_dir[r] \in dirs
        /\ InPath(r) \in files

\* The per-request stage timings of a metrics dict, added up.
StageSum(m) ==
    m.validation + m.audio_preprocessing + m.audio_loading + m.feature_extraction
        + m.model_inference + m.decoding + m.postprocessing + m.cleanup

\* The aggregation has run and the finally block not yet.
Aggregated == timing.response.built /\ ~ timing.handed_back

Progress(r) ==
    \/ W_Validate(r) \/ W_Mkdtemp(r) \/ W_WriteInput(r) \/ W_Spawn(r)
    \/ W_Communicate(r) \/ W_CheckExit(r) \/ W_NormExcept(r) \/ W_Dispatch(r)
    \/ W_TranscribeAudioFile(r) \/ W_Respond(r) \/ W_Finally(r) \/ W_Http(r)
    \/ F_Validate(r) \/ F_NormStart(r) \/ F_NormWait(r) \/ F_NormFinish(r)
    \/ F_Dispatch(r) \/ F_TranscribeAudioFile(r) \/ F_Respond(r) \/ F_Except(r)
    \/ F_Finally(r) \/ F_Http(r)
    \/ G_Mkdtemp(r) \/ G_WriteInput(r) \/ G_Run(r) \/ G_RunReturn(r)
    \/ G_SizeCheck(r) \/ G_Http(r)
    \/ G_TranscribeDispatch(r) \/ G_ExecuteTranscription(r)
    \/ G_TranscribeResume(r) \/ G_TranscribeFinally(r) \/ G_TranscribeReturn(r)

\* The event loop runs a coroutine that is ready, the converter process
\* exits and the backend call returns or raises; requests need not arrive.
SpecLive == Init /\ [][Next]_vars /\ \A r \in Requests : WF_vars(Progress(r))

\* C26: every request that passes validation eventually terminates (with a
\* response or an error) having run its cleanup phase, provided the
\* converter process eventually exits and the backend call eventually
\* returns or raises.
C26_ValidatedRequestEndsCleanedUp ==
    \A r \in Requests : PassedValidation(r) ~> (Done(r) /\ CleanupRan(r))

\* Termination alone: a request that passes validation is eventually over.
C26_Terminates ==
    \A r \in Requests : PassedValidation(r) ~> Done(r)

\* An extension of the validator's list as a message would name it.
ExtensionName(e) ==
    CASE e = <<".", "m", "p", "3">> -> "mp3"
      [] e = <<".", "w", "a", "v">> -> "wav"
      [] e = <<".", "m", "4", "a">> -> "m4a"
      [] e = <<".", "f", "l", "a", "c">> -> "flac"
      [] e = <<".", "o", "g", "g">> -> "ogg"
      [] e = <<".", "a", "a", "c">> -> "aac"
      [] e = <<".", "w", "e", "b", "m">> -> "webm"

\* The formats a validation message lists after "Supported formats:".
FormatsNamed(msg) ==
    LET at == CHOOSE i \in 1..Len(msg) : msg[i] = MsgSupported
    IN  {msg[i] : i \in (at + 1)..Len(msg)}

\* C27: in each service variant the message returned for a rejected format
\* names exactly the extensions that the format validator accepts: every
\* accepted extension is in the message and nothing else is.
C27_MessageNamesAcceptedFormats ==
    \A r \in Requests :
        Done(r) /\ Contains(detail[r], MsgSupported) =>
            FormatsNamed(detail[r]) = {ExtensionName(e) : e \in valid_extensions}

MsgCorruptAudio == "corrupt or unsupported audio"

\* C28: when the converter fails with a diagnostic that indicates invalid
\* input data, the error raised by the normalizer carries the more specific
\* "corrupt or unsupported audio" message, not only the raw diagnostic.
C28_InvalidDataIsTranslated ==
    \A r \in Requests :
        /\ conv[r].state = "exited" /\ conv[r].rc # 0
        /\ conv[r].err = MsgInvalidData
        /\ exc[r] # NoExc
        => Contains(exc[r].msg, MsgCorruptAudio)

(***************************************************************************)
(* whisper, faster-whisper: main.py, POST /shutdown                        *)
(***************************************************************************)
\* main.py shutdown: the handler starts a thread running stop_server and
\* returns its message.  One shutdown request is followed.
Shutdown ==
    /\ variant \in {"whisper", "faster"}
    /\ service = "ready"
    /\ loop = 0
    /\ stop_server = "none"
    /\ stop_server' = "started"
    /\ shutdown_reply' = MsgShuttingDown
    /\ UNCHANGED <<server_instance, should_exit, metrics_model_load, ServiceVars,
                   variant, probe, timing, loop, pc, upload, dirs, files, owner,
                   temp_dir, outBound, procPath, conv, backend, exc, resp, status,
                   detail, spawns, calls, log, cleanup_error>>

\* main.py stop_server, on its own thread:
\* if server_instance: server_instance.should_exit = True
StopServer ==
    /\ stop_server = "started"
    /\ stop_server' = "finished"
    /\ should_exit' = IF server_instance # None THEN TRUE ELSE should_exit
    /\ UNCHANGED <<server_instance, shutdown_reply, metrics_model_load, ServiceVars,
                   variant, probe, timing, loop, pc, upload, dirs, files, owner,
                   temp_dir, outBound, procPath, conv, backend, exc, resp, status,
                   detail, spawns, calls, log, cleanup_error>>

NextShutdown == Next \/ Shutdown \/ StopServer

\* The requests of SpecLive beside a shutdown request; the thread that
\* /shutdown starts is scheduled.
SpecShutdown ==
    /\ Init
    /\ [][NextShutdown]_vars
    /\ \A r \in Requests : WF_vars(Progress(r))
    /\ WF_vars(StopServer)

\* C29: after a POST /shutdown request has been answered with "Server
\* shutting down", the server's exit flag should_exit is eventually set.
C29_ShutdownSetsExitFlag ==
    (shutdown_reply = MsgShuttingDown) ~> should_exit

(***************************************************************************)
(* Service start: main.py builds transcription_service at import           *)
(***************************************************************************)
\* TranscriptionService._load_model (whisper, faster-whisper): the model is
\* loaded and the time it took kept, or the load raises RuntimeError.
LoadModel ==
    /\ loads' = loads + 1
    /\ \/ /\ model' = loads + 1
          /\ model_load_time' \in Durations
          /\ service' = "ready"
       \/ /\ service' = "failed"
          /\ UNCHANGED <<model, model_load_time>>

\* The request state, which the start of the service leaves as it is.
RequestVars ==
    <<variant, probe, timing, loop, pc, upload, dirs, files, owner, temp_dir,
      outBound, procPath, conv, backend, exc, resp, status, detail, spawns,
      calls, log, cleanup_error, metrics_model_load>>

\* whisper main.py: TranscriptionService(model_path=MODEL_PATH).
W_Construct ==
    /\ variant = "whisper"
    /\ service = "unconstructed"
    /\ LoadModel
    /\ UNCHANGED <<RequestVars, ServerVars>>

\* faster-whisper: main.py calls TranscriptionService(model_size=...,
\* model_path=...), a TypeError for __init__(self, model_path), and the
\* import ends there; a caller that passes model_path alone gets the service.
F_Construct ==
    /\ variant = "faster"
    /\ service = "unconstructed"
    /\ \/ /\ service' = "failed"
          /\ UNCHANGED <<model, loads, model_load_time>>
       \/ LoadModel
    /\ UNCHANGED <<RequestVars, ServerVars>>

\* groq-api transcription.py __init__: without an API key ValueError, else
\* the Groq clients are created; there is no load time.
G_Construct ==
    /\ variant \in {"groq", "groq_service"}
    /\ service = "unconstructed"
    /\ \/ /\ service' = "failed"
          /\ UNCHANGED <<model, loads>>
       \/ /\ service' = "ready"
          /\ loads' = loads + 1
          /\ model' = loads + 1
    /\ UNCHANGED <<model_load_time, RequestVars, ServerVars>>

InitStart ==
    /\ variant \in Variants
    /\ probe = NoProbe
    /\ timing = NoTiming
    /\ Idle
    /\ Unconstructed
    /\ ServerIdle

NextStart == W_Construct \/ F_Construct \/ G_Construct \/ Next

\* The process from its start: the service is built, then requests arrive.
SpecStart == InitStart /\ [][NextStart]_vars

\* C30: the backend model/client is loaded exactly once, at service
\* construction and before any request is handled; no request handler
\* reassigns the shared model handle, and the model_load value in each
\* request's metrics is the same constant for all requests of the process.
C30_ModelLoadedOnce ==
    /\ loads <= 1
    /\ service = "ready" => loads = 1 /\ model = 1
    /\ \A r \in Requests :
           /\ pc[r] # "idle" => service = "ready" /\ model = 1
           /\ metrics_model_load[r] # <<>> =>
                  metrics_model_load[r] = <<model_load_time>>
    /\ \A r, q \in Requests :
           metrics_model_load[r] # <<>> /\ metrics_model_load[q] # <<>> =>
               metrics_model_load[r] = metrics_model_load[q]

\* Two requests were handled one after the other by a service whose model
\* took time to load, and both carry that load time in their metrics.
C30_Witness ==
    \E r, q \in Requests :
        /\ r # q
        /\ Done(r) /\ Done(q)
        /\ status[r] = 200 /\ backend[q].state = "raised"
        /\ model = 1 /\ loads = 1 /\ model_load_time > 0
        /\ metrics_model_load[r] = <<model_load_time>>
        /\ metrics_model_load[q] = <<model_load_time>>

====
